---- MODULE Spec2Model ----
(***************************************************************************)
(* Model of the hash-linked ledger of api/blockchain.py (SimpleBlockchain) *)
(* and of its persistence in the ChainBlock / ChainTransaction tables of   *)
(* api/models.py.                                                          *)
(*                                                                         *)
(* Python values are modelled as follows.                                  *)
(*   - a dict is a record with a field `keys` holding the insertion order  *)
(*     of its keys, and one field per key;                                 *)
(*   - a number whose Python type can vary (Tx.amount, Tx.project_id, the  *)
(*     values of a meta dict) is a record [t, v] with t in                 *)
(*     {"int","float","none"}; a float has the integral value v.0;         *)
(*   - json.dumps produces a string; SHA-256 is taken to be collision      *)
(*     free and is modelled as an injective tagging of its input.          *)
(***************************************************************************)
EXTENDS Integers, Sequences, FiniteSets, TLC

VARIABLES chain, pending, store, proc, boot, nOps, lastOp, streak, trace,
          hb1, hb2, hd1, hd2, ret, tamper, threads,
          submitted, raised,
          project, purchases, minted, reviews, reqs, setup

vars == <<chain, pending, store, proc, boot, nOps, lastOp, streak, trace,
          hb1, hb2, hd1, hd2, ret, tamper, threads,
          submitted, raised,
          project, purchases, minted, reviews, reqs, setup>>

ledgerVars == <<chain, pending, store, proc, boot, nOps, lastOp, streak, trace,
                ret, tamper, threads, submitted, raised>>
hashVars == <<hb1, hb2, hd1, hd2>>
appVars == <<project, purchases, minted, reviews, reqs, setup>>

(***************************************************************************)
(* Bounds of the model                                                     *)
(***************************************************************************)
MaxOps == 5
MaxChain == 3
MaxProcs == 2
MaxTrace == 3
MaxTamperOps == 2
MaxCalls == 1
MaxProjects == 2
MaxReviews == 3
MaxBuyers == 2
MaxPurchases == 2
InitialCredits == 10

(***************************************************************************)
(* Program constants                                                       *)
(***************************************************************************)
Threshold == 5
\* for i in range(10)
ReadinessChecks == 10
\* if ready_count >= 3
ReadyNeeded == 3
GENESIS == "GENESIS"

(***************************************************************************)
(* Python values                                                           *)
(***************************************************************************)
PyNone == [t |-> "none", v |-> 0]
PyInt(n) == [t |-> "int", v |-> n]
PyFloat(n) == [t |-> "float", v |-> n]

\* float(x) for an int or a float x
ToFloat(x) == [t |-> "float", v |-> x.v]

NoMeta == [t |-> "none", keys |-> <<>>, source |-> PyNone, batch |-> PyNone]
MetaSB == [t |-> "dict", keys |-> <<"source", "batch">>, source |-> PyInt(1), batch |-> PyInt(2)]
MetaBS == [t |-> "dict", keys |-> <<"batch", "source">>, source |-> PyInt(1), batch |-> PyInt(2)]
\* a dict holding a value that is no JSON type (a set, an object)
MetaObject == [t |-> "object", keys |-> <<"source">>, source |-> PyNone, batch |-> PyNone]

Range(s) == {s[i] : i \in DOMAIN s}

(***************************************************************************)
(* Tx dataclass and asdict                                                 *)
(***************************************************************************)
Tx(sender, recipient, amount, project_id, kind, meta) ==
    [sender |-> sender, recipient |-> recipient, amount |-> amount,
     project_id |-> project_id, kind |-> kind, meta |-> meta]

TxKeys == <<"sender", "recipient", "amount", "project_id", "kind", "meta">>

asdict(t) ==
    [keys |-> TxKeys, sender |-> t.sender, recipient |-> t.recipient,
     amount |-> t.amount, project_id |-> t.project_id, kind |-> t.kind,
     meta |-> t.meta]

AsDicts(txs) == [i \in DOMAIN txs |-> asdict(txs[i])]

(***************************************************************************)
(* json.dumps(block, sort_keys=True) and SimpleBlockchain.hash             *)
(***************************************************************************)
\* every key of the model, in the order sorted() gives them
KeyOrder == <<"amount", "batch", "hash", "index", "kind", "meta", "nonce",
              "previous_hash", "project_id", "recipient", "sender", "source",
              "timestamp", "transactions">>

\* key order of the output without sort_keys: the insertion order
InsertionOrder(keys) == keys

\* sort_keys=True: the keys of a dict in sorted order
SortKeys(keys) ==
    LET present == Range(keys)
    IN SelectSeq(KeyOrder, LAMBDA k : k \in present)

RECURSIVE JoinFrom(_, _, _)
JoinFrom(strs, sep, i) ==
    IF i > Len(strs) THEN ""
    ELSE IF i = Len(strs) THEN strs[i]
    ELSE strs[i] \o sep \o JoinFrom(strs, sep, i + 1)

\* sep.join(strs); the list is evaluated once
Join(strs, sep) ==
    CHOOSE r \in {JoinFrom(s, sep, 1) : s \in {strs}} : TRUE

DumpStr(s) == "\"" \o s \o "\""

DumpNum(x) ==
    CASE x.t = "int" -> ToString(x.v)
      [] x.t = "float" -> ToString(x.v) \o ".0"
      [] OTHER -> "null"

DumpFloat(n) == ToString(n) \o ".0"

\* a dict, from its keys and the dumps of their values
DumpItems(keys, vals) ==
    CHOOSE r \in {"{" \o Join([i \in DOMAIN k |-> DumpStr(k[i]) \o ": " \o v[i]], ", ") \o "}" :
                    k \in {keys}, v \in {vals}} : TRUE

DumpMeta(m) ==
    IF m.t = "none" THEN "null"
    ELSE LET ks == SortKeys(m.keys)
         IN DumpItems(ks, [i \in DOMAIN ks |-> DumpNum(m[ks[i]])])

DumpTxField(d, k) ==
    CASE k = "sender" -> DumpStr(d.sender)
      [] k = "recipient" -> DumpStr(d.recipient)
      [] k = "amount" -> DumpNum(d.amount)
      [] k = "project_id" -> DumpNum(d.project_id)
      [] k = "kind" -> DumpStr(d.kind)
      [] k = "meta" -> DumpMeta(d.meta)

DumpTx(d) ==
    LET ks == SortKeys(d.keys)
    IN DumpItems(ks, [i \in DOMAIN ks |-> DumpTxField(d, ks[i])])

DumpList(txs) == "[" \o Join([i \in DOMAIN txs |-> DumpTx(txs[i])], ", ") \o "]"

DumpBlockField(b, k) ==
    CASE k = "index" -> ToString(b.index)
      [] k = "timestamp" -> DumpFloat(b.timestamp)
      [] k = "transactions" -> DumpList(b.transactions)
      [] k = "previous_hash" -> DumpStr(b.previous_hash)
      [] k = "nonce" -> ToString(b.nonce)
      [] k = "hash" -> DumpStr(b.hash)

dumps(b) ==
    LET ks == SortKeys(b.keys)
    IN DumpItems(ks, [i \in DOMAIN ks |-> DumpBlockField(b, ks[i])])

\* json.dumps raises TypeError on a value that is no JSON type
Dumpable(b) ==
    \A i \in DOMAIN b.transactions : b.transactions[i].meta.t # "object"

\* hashlib.sha256(content).hexdigest(), taken to be collision free
Sha256(content) == "sha256<" \o content \o ">"

\* SimpleBlockchain.hash(block)
hash(b) == Sha256(dumps(b))

(***************************************************************************)
(* Block dicts                                                             *)
(***************************************************************************)
BlockKeys == <<"index", "timestamp", "transactions", "previous_hash", "nonce">>

\* block["hash"] = h
SetHash(b, h) ==
    [keys |-> Append(b.keys, "hash"), index |-> b.index, timestamp |-> b.timestamp,
     transactions |-> b.transactions, previous_hash |-> b.previous_hash,
     nonce |-> b.nonce, hash |-> h]

\* the fields of a block other than its hash
WithoutHash(b) ==
    [keys |-> SelectSeq(b.keys, LAMBDA k : k # "hash"), index |-> b.index,
     timestamp |-> b.timestamp, transactions |-> b.transactions,
     previous_hash |-> b.previous_hash, nonce |-> b.nonce]

Last(s) == s[Len(s)]

(***************************************************************************)
(* Ledger store: the ChainBlock and ChainTransaction tables                *)
(***************************************************************************)
EmptyStore == [blocks |-> <<>>, txs |-> <<>>]

\* ChainBlock.objects.create(...): the primary key is the next row number;
\* the JSON column raw keeps the dict with the types and key order of its values
BlockRow(st, block) ==
    [id |-> Len(st.blocks) + 1, index |-> block.index, timestamp |-> block.timestamp,
     previous_hash |-> block.previous_hash, nonce |-> block.nonce,
     hash |-> block.hash, raw |-> block]

\* ChainTransaction.objects.create(block=b, ...): amount is a FloatField
TxRow(bid, tx) ==
    [block |-> bid, sender |-> tx.sender, recipient |-> tx.recipient,
     amount |-> ToFloat(tx.amount), project_id |-> tx.project_id,
     kind |-> tx.kind, meta |-> tx.meta]

NoFail == -1

\* the persistence attempts of a block with n transactions: success, or an
\* exception raised after k of the 1 + n creates have been done
Fails(n) == {NoFail} \cup (0 .. n)

\* the rows written by the first k creates of new_block
PersistRows(st, block, k) ==
    IF k = 0 THEN st
    ELSE [blocks |-> Append(st.blocks, BlockRow(st, block)),
          txs |-> st.txs \o [i \in 1 .. (k - 1) |->
                               TxRow(Len(st.blocks) + 1, block.transactions[i])]]

\* the try block without db_transaction.atomic(): the rows stay
PersistNoAtomic(st, block, fail) ==
    IF fail = NoFail THEN PersistRows(st, block, 1 + Len(block.transactions))
    ELSE PersistRows(st, block, fail)

\* the try block of new_block: with db_transaction.atomic() an exception
\* rolls back every row of the attempt
Persist(st, block, fail) ==
    IF fail = NoFail THEN PersistRows(st, block, 1 + Len(block.transactions))
    ELSE st

(***************************************************************************)
(* What a call gives back to its caller                                    *)
(***************************************************************************)
NoValue == <<>>

\* a function that ends without a return statement returns None
RetNone == [t |-> "none", n |-> 0, block |-> NoValue, items |-> <<>>]
RetInt(n) == [t |-> "int", n |-> n, block |-> NoValue, items |-> <<>>]
RetBlock(b) == [t |-> "block", n |-> 0, block |-> b, items |-> <<>>]
RetList(l) == [t |-> "list", n |-> 0, block |-> NoValue, items |-> l]
\* the call ends with an exception
RetRaise == [t |-> "raise", n |-> 0, block |-> NoValue, items |-> <<>>]

(***************************************************************************)
(* SimpleBlockchain: new_block, new_transaction                            *)
(***************************************************************************)
\* A manager state: the fields of the object, the store, the number of calls
\* of new_block, the number of them whose rows were committed, and the value
\* the call in progress returns.
Mgr(c, p, st) ==
    [chain |-> c, pending |-> p, store |-> st, seals |-> 0, persisted |-> 0,
     ret |-> RetNone]

\* the first block of the chain in place of the last
FirstBlock(m) ==
    IF Len(m.chain) = 0 THEN RetRaise ELSE RetBlock(m.chain[1])

\* the property last_block: self.chain[-1], an IndexError on an empty chain
last_block(m) ==
    IF Len(m.chain) = 0 THEN RetRaise ELSE RetBlock(m.chain[Len(m.chain)])

\* a new_block whose persistence failure reaches the caller: the exception
\* leaves the chain and the pending buffer as they were
NewBlockFatal(m, nonce, previous_hash, ts) ==
    LET block5 == [keys |-> <<"index", "timestamp", "transactions", "previous_hash", "nonce">>,
                   index |-> Len(m.chain) + 1,
                   timestamp |-> ts,
                   transactions |-> AsDicts(m.pending),
                   previous_hash |-> IF previous_hash # "" THEN previous_hash
                                     ELSE hash(m.chain[Len(m.chain)]),
                   nonce |-> nonce]
        block == SetHash(block5, hash(block5))
    IN {IF fail = NoFail \/ Len(m.chain) = 0
        THEN [chain |-> Append(m.chain, block),
              pending |-> <<>>,
              store |-> Persist(m.store, block, fail),
              seals |-> m.seals + 1,
              persisted |-> m.persisted + (IF fail = NoFail THEN 1 ELSE 0),
              ret |-> RetBlock(block)]
        ELSE [m EXCEPT !.seals = m.seals + 1, !.ret = RetRaise] :
          fail \in Fails(Len(block.transactions))}

\* index of a new block that repeats the index of the last block
NewIndexStale(c) == Len(c)

\* "index": len(self.chain) + 1
NewIndex(c) == Len(c) + 1

\* the call ends with an exception: the fields are as the statements
\* executed before it left them
Raised(m) == [m EXCEPT !.ret = RetRaise]

\* a new_block that leaves the sealed transactions in the pending buffer
NewBlockKeepsPending(m, nonce, previous_hash, ts) ==
    LET block5 == [keys |-> BlockKeys,
                   index |-> NewIndex(m.chain),
                   timestamp |-> ts,
                   transactions |-> AsDicts(m.pending),
                   previous_hash |-> IF previous_hash # "" THEN previous_hash
                                     ELSE hash(Last(m.chain)),
                   nonce |-> nonce]
        block == SetHash(block5, hash(block5))
    IN {[chain |-> Append(m.chain, block),
         pending |-> m.pending,
         store |-> Persist(m.store, block, fail),
         seals |-> m.seals + 1,
         persisted |-> m.persisted + (IF fail = NoFail THEN 1 ELSE 0),
         ret |-> RetBlock(block)] :
          fail \in Fails(Len(block.transactions))}

\* a new_block that takes the pending transactions out of the buffer
\* before it hashes the block
NewBlockClearsFirst(m, nonce, previous_hash, ts) ==
    LET block5 == [keys |-> BlockKeys,
                   index |-> NewIndex(m.chain),
                   timestamp |-> ts,
                   transactions |-> AsDicts(m.pending),
                   previous_hash |-> IF previous_hash # "" THEN previous_hash
                                     ELSE hash(Last(m.chain)),
                   nonce |-> nonce]
        block == SetHash(block5, hash(block5))
    IN IF ~Dumpable(block5) THEN {Raised([m EXCEPT !.pending = <<>>])}
       ELSE {[chain |-> Append(m.chain, block),
              pending |-> <<>>,
              store |-> Persist(m.store, block, fail),
              seals |-> m.seals + 1,
              persisted |-> m.persisted + (IF fail = NoFail THEN 1 ELSE 0),
              ret |-> RetBlock(block)] :
               fail \in Fails(Len(block.transactions))}

\* new_block(nonce, previous_hash); previous_hash = "" stands for None.
\* The result is the set of the states the call can end in: the one state of
\* a call in which hashing the block raised, or one state for each outcome
\* of the persistence attempt.
new_block(m, nonce, previous_hash, ts) ==
    LET Sealed(block5, block) ==
            IF ~Dumpable(block5) THEN {Raised(m)}
            ELSE {[chain |-> Append(m.chain, block),
                   pending |-> <<>>,
                   store |-> Persist(m.store, block, fail),
                   seals |-> m.seals + 1,
                   persisted |-> m.persisted + (IF fail = NoFail THEN 1 ELSE 0),
                   ret |-> RetBlock(block)] :
                    fail \in Fails(Len(block.transactions))}
        Hashed(block5) ==
            UNION {Sealed(block5, block) : block \in {SetHash(block5, hash(block5))}}
    IN UNION {Hashed(block5) :
                block5 \in {[keys |-> BlockKeys,
                             index |-> NewIndex(m.chain),
                             timestamp |-> ts,
                             transactions |-> AsDicts(m.pending),
                             previous_hash |-> IF previous_hash # "" THEN previous_hash
                                               ELSE hash(Last(m.chain)),
                             nonce |-> nonce]}}

\* a threshold test that seals one transaction early
ReachedEarly(p) == Len(p) >= Threshold - 1

\* a threshold test that seals one transaction late
ReachedLate(p) == Len(p) > Threshold

\* if len(self.pending) >= 5
Reached(p) == Len(p) >= Threshold

\* return self.last_block["index"] + 1
NextIndex(m) ==
    IF last_block(m).t = "raise" THEN RetRaise
    ELSE RetInt(last_block(m).block.index + 1)

new_transaction(m, tx, ts) ==
    LET m1 == [m EXCEPT !.pending = Append(m.pending, tx)]
        after == IF Reached(m1.pending) THEN new_block(m1, 0, "", ts) ELSE {m1}
    IN {IF m2.ret = RetRaise THEN m2 ELSE [m2 EXCEPT !.ret = NextIndex(m2)] :
          m2 \in after}

\* the transaction is submitted and left to the batching threshold
submit_only(m, tx, ts) ==
    new_transaction(m, tx, ts)

\* issue_credits and transfer_credits: new_transaction, then new_block
\* neither function has a return statement; an exception of
\* new_transaction ends the call before new_block
submit_and_seal(m, tx, ts) ==
    {IF m2.ret = RetRaise THEN m2 ELSE [m2 EXCEPT !.ret = RetNone] :
       m2 \in UNION {IF m1.ret = RetRaise THEN {m1} ELSE new_block(m1, 0, "", ts) :
                       m1 \in new_transaction(m, tx, ts)}}

IssueTx(recipient_addr, amount, project_id) ==
    Tx("SYSTEM", recipient_addr, ToFloat(amount), project_id, "ISSUE", NoMeta)

TransferTx(sender_addr, recipient_addr, amount, project_id) ==
    Tx(sender_addr, recipient_addr, ToFloat(amount), project_id, "TRANSFER", NoMeta)

(***************************************************************************)
(* SimpleBlockchain.__init__: load the chain from the store                *)
(***************************************************************************)
\* position of row r in ChainBlock.objects.all().order_by("index"); rows of
\* equal index are taken in primary-key order
RowRank(rows, r) ==
    Cardinality({q \in Range(rows) :
                   q.index < r.index \/ (q.index = r.index /\ q.id < r.id)}) + 1

OrderByIndex(rows) ==
    [i \in 1 .. Len(rows) |-> CHOOSE r \in Range(rows) : RowRank(rows, r) = i]

\* the dict built from a ChainTransaction row
LoadTx(r) ==
    [keys |-> TxKeys, sender |-> r.sender, recipient |-> r.recipient,
     amount |-> r.amount, project_id |-> r.project_id, kind |-> r.kind,
     meta |-> r.meta]

\* b.txs.all(): the rows of block row b, in primary-key order
TxsOf(st, b) == SelectSeq(st.txs, LAMBDA r : r.block = b.id)

\* item = b.raw; item["transactions"] = txs
LoadBlock(st, b) ==
    [b.raw EXCEPT !.transactions = [i \in DOMAIN TxsOf(st, b) |-> LoadTx(TxsOf(st, b)[i])]]

LoadChain(st, n) ==
    [i \in 1 .. n |-> LoadBlock(st, OrderByIndex(st.blocks)[i])]

\* a constructor that seals a genesis block whatever the store holds
InitAlwaysGenesis(st, raises, loaded, ts) ==
    new_block(Mgr(LoadChain(st, loaded), <<>>, st), 0, GENESIS, ts)

\* a constructor that loads what the store holds and never creates a block
InitNoGenesis(st, raises, loaded, ts) ==
    {Mgr(LoadChain(st, loaded), <<>>, st)}

\* SimpleBlockchain(): the first `loaded` block rows are appended to the chain;
\* then either the load raises and the except branch seals a genesis block,
\* or the store held no block and the else branch seals it, or the chain is
\* the loaded one
SimpleBlockchain(st, raises, loaded, ts) ==
    LET m0 == Mgr(LoadChain(st, loaded), <<>>, st)
    IN IF raises \/ Len(st.blocks) = 0
       THEN new_block(m0, 0, GENESIS, ts)
       ELSE {m0}

(***************************************************************************)
(* The module function get_chain                                           *)
(***************************************************************************)
\* the columns of the ChainTransaction table
TxColumns == {"id", "block", "sender", "recipient", "amount", "project_id",
              "kind", "meta", "timestamp"}

\* the dict get_chain builds from a ChainTransaction row
ChainData(r) ==
    [keys |-> <<"sender", "recipient", "amount", "project_id", "kind", "meta",
                "tx_hash", "timestamp">>,
     sender |-> r.sender, recipient |-> r.recipient, amount |-> r.amount,
     project_id |-> r.project_id, kind |-> r.kind, meta |-> r.meta,
     tx_hash |-> r.tx_hash, timestamp |-> r.timestamp]

\* get_chain(): the ChainTransaction rows that have a tx_hash, newest first,
\* as dicts.  The filter names the column tx_hash; on a table without that
\* column it raises, and the except branch returns the empty list.
get_chain(st) ==
    IF "tx_hash" \in TxColumns
    THEN LET rows == SelectSeq(st.txs, LAMBDA r : r.tx_hash # "")
         IN RetList([i \in DOMAIN rows |-> ChainData(rows[Len(rows) + 1 - i])])
    ELSE RetList(<<>>)

(***************************************************************************)
(* Inputs                                                                  *)
(***************************************************************************)
\* time.time(): the clock advances by one with every construction and call
Clock == proc + nOps

\* an int amount, with key-value metadata
TInt == Tx("0xAAA", "0xBBB", PyInt(5), PyInt(7), "TRANSFER", MetaSB)
\* a negative amount and a kind outside the enumeration
TBad == Tx("0xBBB", "0xAAA", PyFloat(-1), PyNone, "BURN", NoMeta)

SubmitTxs == {TInt, TBad}

\* <<recipient, amount, project_id>>
IssueArgs == {<<"0xAAA", PyInt(100), PyInt(7)>>}
\* <<sender, recipient, amount, project_id>>
TransferArgs == {<<"0xAAA", "0xBBB", PyInt(40), PyInt(7)>>}

\* the record of a call: its name, its arguments, the length of the pending
\* buffer when it was made, the seals it did and how many of them persisted
Op(name, args, before, m) ==
    [name |-> name, args |-> args, before |-> before, seals |-> m.seals,
     persisted |-> m.persisted]

NoOp == [name |-> "none", args |-> <<>>, before |-> 0, seals |-> 0, persisted |-> 0]

(***************************************************************************)
(* Inputs of the Hasher                                                    *)
(***************************************************************************)
Reverse(s) == [i \in DOMAIN s |-> s[Len(s) + 1 - i]]

HashTx(txkeys, sender, amount, meta) ==
    [keys |-> txkeys, sender |-> sender, recipient |-> "0xBBB", amount |-> amount,
     project_id |-> PyInt(7), kind |-> "TRANSFER", meta |-> meta]

HashBlock(keys, index, nonce, previous_hash, tx) ==
    [keys |-> keys, index |-> index, timestamp |-> 0, transactions |-> <<tx>>,
     previous_hash |-> previous_hash, nonce |-> nonce]

HashIndexes == {1, 2}
HashNonces == {0, 1}
HashPrevs == {GENESIS, "sha256<0>"}
HashSenders == {"0xAAA", "SYSTEM"}
HashAmounts == {PyFloat(5), PyFloat(6), PyInt(5)}

\* blocks whose maps were filled in the order of the code
HashInputs1 ==
    {HashBlock(BlockKeys, i, n, p, HashTx(TxKeys, s, a, MetaSB)) :
       i \in HashIndexes, n \in HashNonces, p \in HashPrevs,
       s \in HashSenders, a \in HashAmounts}

\* the same blocks with their maps filled in either order
HashInputs2 ==
    {HashBlock(k, i, n, p, HashTx(tk, s, a, m)) :
       k \in {BlockKeys, Reverse(BlockKeys)}, tk \in {TxKeys, Reverse(TxKeys)},
       m \in {MetaSB, MetaBS},
       i \in HashIndexes, n \in HashNonces, p \in HashPrevs,
       s \in HashSenders, a \in HashAmounts}

NoBlock == HashBlock(BlockKeys, 0, 0, "", HashTx(TxKeys, "", PyNone, NoMeta))

(***************************************************************************)
(* Initial state: the first process has been constructed on an empty store *)
(***************************************************************************)
\* no row of the store has been altered: row is the primary key of the
\* block row altered or owning the altered transaction row, tx the position
\* of the transaction row in its table
NoTamper == [row |-> 0, tx |-> 0, field |-> "none"]

\* no thread is inside a call
NoThreads == <<>>

\* no process has been started
LedgerIdle ==
    /\ chain = <<>>
    /\ pending = <<>>
    /\ store = EmptyStore
    /\ proc = 0
    /\ boot = "none"
    /\ nOps = 0
    /\ lastOp = NoOp
    /\ streak = <<>>
    /\ trace = <<>>
    /\ ret = RetNone
    /\ tamper = NoTamper
    /\ threads = NoThreads
    /\ submitted = <<>>
    /\ raised = 0

\* the transactions of the blocks of a chain, block after block
RECURSIVE Flatten(_)
Flatten(c) ==
    IF c = <<>> THEN <<>> ELSE c[1].transactions \o Flatten(Tail(c))

(***************************************************************************)
(* The Project and Purchase tables, the requests in progress and the       *)
(* auto-setup thread, before anything has happened                         *)
(***************************************************************************)
Projects == 1 .. MaxProjects

Buyers == 1 .. MaxBuyers

\* a Project row as the NGO's upload creates it: the defaults of the columns
NewProject == [status |-> "pending", credits |-> 0, chain_issued |-> FALSE]

\* no purchase_credits request of the buyer is in progress
NoRequest == [pc |-> "idle", pid |-> 0, credits |-> 0, seen |-> 0, n |-> 0,
              ret |-> "none"]

\* BlockchainAutoSetup.__init__, and the thread not yet started
SetupIdle ==
    [pc |-> "idle", path |-> "none", i |-> 0, ready_count |-> 0, results |-> <<>>,
     deploys |-> 0, contracts_deployed |-> FALSE, setup_complete |-> FALSE]

AppIdle ==
    /\ project = [p \in Projects |-> NewProject]
    /\ purchases = <<>>
    /\ minted = [p \in Projects |-> 0]
    /\ reviews = 0
    /\ reqs = [b \in Buyers |-> NoRequest]
    /\ setup = SetupIdle

\* how a construction on a store of n block rows went
BootKind(raises, n) ==
    IF raises THEN "failed" ELSE IF n = 0 THEN "empty" ELSE "loaded"

Init ==
    /\ \E raises \in BOOLEAN :
         \E m \in SimpleBlockchain(EmptyStore, raises, 0, 0) :
         LET op == Op("construct", <<>>, 0, m)
         IN /\ chain = m.chain
            /\ pending = m.pending
            /\ store = m.store
            /\ boot = BootKind(raises, 0)
            /\ lastOp = op
            /\ trace = <<op>>
    /\ proc = 1
    /\ nOps = 0
    /\ streak = <<>>
    /\ ret = RetNone
    /\ tamper = NoTamper
    /\ threads = NoThreads
    /\ submitted = <<>>
    /\ raised = 0
    /\ AppIdle
    /\ hb1 = NoBlock
    /\ hb2 = NoBlock
    /\ hd1 = ""
    /\ hd2 = ""

\* bookkeeping shared by the operations of a running process
Record(op, m) ==
    /\ chain' = m.chain
    /\ pending' = m.pending
    /\ store' = m.store
    /\ nOps' = nOps + 1
    /\ lastOp' = op
    /\ trace' = IF Len(trace) <= MaxTrace THEN Append(trace, op) ELSE trace
    /\ ret' = m.ret
    /\ raised' = IF m.ret = RetRaise THEN 1 - raised ELSE raised
    /\ UNCHANGED <<proc, boot, hashVars, appVars, tamper, threads>>

(***************************************************************************)
(* Operations                                                              *)
(***************************************************************************)
\* The process is restarted: SimpleBlockchain() on the current store.  The
\* load raises after `loaded` blocks have been appended, or does not raise.
Construct ==
    /\ proc < MaxProcs
    /\ nOps < MaxOps
    /\ \E raises \in BOOLEAN :
         LET n == Len(store.blocks) IN
         \E loaded \in 0 .. n :
           /\ raises => loaded <= (IF n = 0 THEN 0 ELSE n - 1)
           /\ ~raises => loaded = n
           /\ \E m \in SimpleBlockchain(store, raises, loaded, Clock) :
              LET op == Op("construct", <<>>, 0, m)
              IN /\ chain' = m.chain
                 /\ pending' = m.pending
                 /\ store' = m.store
                 /\ boot' = BootKind(raises, n)
                 /\ lastOp' = op
                 /\ trace' = <<op>>
                 /\ submitted' = Flatten(m.chain)
    /\ proc' = proc + 1
    /\ nOps' = nOps + 1
    /\ streak' = <<>>
    /\ ret' = RetNone
    /\ UNCHANGED <<hashVars, appVars, tamper, threads, raised>>

\* a SimpleBlockchain object exists
Constructed == proc >= 1

Running == proc >= 1 /\ nOps < MaxOps

\* submit_transaction: new_transaction(tx)
SubmitTransaction ==
    /\ Running
    /\ \E tx \in SubmitTxs :
         /\ Reached(Append(pending, tx)) => Len(chain) < MaxChain
         /\ \E m \in new_transaction(Mgr(chain, pending, store), tx, Clock) :
              Record(Op("submit", <<tx>>, Len(pending), m), m)
         /\ streak' = IF pending = <<>> THEN <<tx>> ELSE Append(streak, tx)
         /\ submitted' = Append(submitted, asdict(tx))

\* seal_block: new_block(nonce=0)
SealBlock ==
    /\ Running
    /\ Len(chain) < MaxChain
    /\ \E m \in new_block(Mgr(chain, pending, store), 0, "", Clock) :
         Record(Op("seal", <<>>, Len(pending), m), m)
    /\ streak' = <<>>
    /\ UNCHANGED submitted

\* a call of issue_credits / transfer_credits
SubmitAndSeal(name, args, tx) ==
    /\ Len(chain) + (IF Reached(Append(pending, tx)) THEN 2 ELSE 1) <= MaxChain
    /\ \E m \in submit_and_seal(Mgr(chain, pending, store), tx, Clock) :
         Record(Op(name, args, Len(pending), m), m)
    /\ submitted' = Append(submitted, asdict(tx))

IssueCredits ==
    /\ Running
    /\ \E a \in IssueArgs : SubmitAndSeal("issue", a, IssueTx(a[1], a[2], a[3]))
    /\ streak' = <<>>

TransferCredits ==
    /\ Running
    /\ \E a \in TransferArgs :
         SubmitAndSeal("transfer", a, TransferTx(a[1], a[2], a[3], a[4]))
    /\ streak' = <<>>

Next ==
    \/ Construct
    \/ SubmitTransaction
    \/ SealBlock
    \/ IssueCredits
    \/ TransferCredits

Spec == Init /\ [][Next]_vars

(***************************************************************************)
(* The ledger with its readers                                             *)
(***************************************************************************)
\* a call that changes nothing of the ledger
Read(name, value) ==
    /\ Constructed
    /\ lastOp' = Op(name, <<>>, Len(pending), Mgr(chain, pending, store))
    /\ ret' = value
    /\ UNCHANGED <<chain, pending, store, proc, boot, nOps, streak, trace,
                   hashVars, appVars, tamper, threads, submitted, raised>>

\* a caller reads the chain with get_chain()
GetChain == Read("get_chain", get_chain(store))

\* a caller reads the property last_block
LastBlock == Read("last_block", last_block(Mgr(chain, pending, store)))

NextReaders ==
    \/ Next
    \/ GetChain
    \/ LastBlock

SpecReaders == Init /\ [][NextReaders]_vars

(***************************************************************************)
(* The ledger with a store whose rows can be altered from outside          *)
(***************************************************************************)
\* the columns of ChainBlock, other than hash and raw, and of ChainTransaction
BlockColumns == {"index", "timestamp", "previous_hash", "nonce"}
TxFields == {"sender", "recipient", "amount", "project_id", "kind", "meta"}

\* a value of the column other than the value v it holds
Altered(field, v) ==
    CASE field \in {"index", "timestamp", "nonce"} -> v + 1
      [] field \in {"previous_hash", "sender", "recipient", "kind"} -> v \o "X"
      [] field = "amount" -> PyFloat(v.v + 1)
      [] field = "project_id" -> PyInt(v.v + 1)
      [] field = "meta" -> IF v = NoMeta THEN MetaSB ELSE NoMeta

\* UPDATE of one column of block row i / of transaction row j
AlterBlockRow(st, i, f) ==
    [st EXCEPT !.blocks[i] = [@ EXCEPT ![f] = Altered(f, @)]]

AlterTxRow(st, j, f) ==
    [st EXCEPT !.txs[j] = [@ EXCEPT ![f] = Altered(f, @)]]

\* One column of one row is altered, once, while a process is running.
Tamper ==
    /\ Constructed
    /\ proc < MaxProcs
    /\ tamper = NoTamper
    /\ \/ \E i \in DOMAIN store.blocks : \E f \in BlockColumns :
            /\ store' = AlterBlockRow(store, i, f)
            /\ tamper' = [row |-> store.blocks[i].id, tx |-> 0, field |-> f]
       \/ \E j \in DOMAIN store.txs : \E f \in TxFields :
            /\ store' = AlterTxRow(store, j, f)
            /\ tamper' = [row |-> store.txs[j].block, tx |-> j, field |-> f]
    /\ UNCHANGED <<chain, pending, proc, boot, nOps, lastOp, streak, trace,
                   hashVars, appVars, ret, threads, submitted, raised>>

\* the calls made before the store is altered
Untampered == tamper = NoTamper /\ nOps < MaxTamperOps

NextTamper ==
    \/ Untampered /\ SubmitTransaction
    \/ Untampered /\ SealBlock
    \/ Untampered /\ IssueCredits
    \/ Untampered /\ TransferCredits
    \/ Tamper
    \/ Construct

SpecTamper == Init /\ [][NextTamper]_vars

(***************************************************************************)
(* Two threads calling one SimpleBlockchain, a statement at a time.  The   *)
(* class takes no lock.  pc names the statement a thread executes next,    *)
(* stack the statements its calls return to, block the local variable of   *)
(* new_block.                                                              *)
(*   nb1  block = {...}                 nt1  self.pending.append(tx)       *)
(*   nb2  block["hash"] = hash(block)   nt2  if len(self.pending) >= 5     *)
(*   nb3  try: ... persist ...          nt3  return last_block["index"]+1  *)
(*   nb4  self.pending = []             ic2  self.new_block(nonce=0)       *)
(*   nb5  self.chain.append(block)                                         *)
(*   nb6  return block                                                     *)
(***************************************************************************)
Threads == {1, 2}

NoTx == Tx("", "", PyNone, PyNone, "", NoMeta)

\* the transaction of call k of thread t
ThreadTx(t, k) ==
    Tx("0xT" \o ToString(t) \o ToString(k), "0xBBB", PyFloat(t), PyNone, "TRANSFER", NoMeta)

\* issue_credits(recipient, t, 7) of call k of thread t
ThreadIssue(t, k) ==
    IssueTx("0xT" \o ToString(t) \o ToString(k), PyInt(t), PyInt(7))

\* four transactions submitted before the threads start
Prefill == [i \in 1 .. (Threshold - 1) |-> ThreadTx(0, i)]

Idle == [pc |-> "idle", stack |-> <<>>, calls |-> 0, tx |-> NoTx,
         block |-> NoValue, ret |-> RetNone]

\* the threads, the clock they read, and the transactions appended to the
\* pending buffer so far
StartThreads(p) ==
    [th |-> [t \in Threads |-> Idle], now |-> 1, submitted |-> Range(p)]

InitThreads ==
    /\ \E m \in SimpleBlockchain(EmptyStore, FALSE, 0, 0) :
         \E p \in {<<>>, Prefill} :
           /\ chain = m.chain
           /\ pending = p
           /\ store = m.store
           /\ lastOp = Op("construct", <<>>, 0, m)
           /\ threads = StartThreads(p)
    /\ proc = 1
    /\ boot = "empty"
    /\ nOps = 0
    /\ streak = <<>>
    /\ trace = <<>>
    /\ ret = RetNone
    /\ tamper = NoTamper
    /\ submitted = <<>>
    /\ raised = 0
    /\ AppIdle
    /\ hb1 = NoBlock
    /\ hb2 = NoBlock
    /\ hd1 = ""
    /\ hd2 = ""

\* thread t moves to th; the manager's fields are set by the action
Step(t, th) ==
    /\ threads' = [threads EXCEPT !.th[t] = th]
    /\ UNCHANGED <<proc, boot, nOps, lastOp, streak, trace, hashVars, appVars, ret, tamper,
                   submitted, raised>>

At(t, pc) == threads # NoThreads /\ threads.th[t].pc = pc

\* return from a call: to the statement on top of the stack, or to the caller
\* of the thread
Return(th, value) ==
    IF th.stack = <<>>
    THEN [th EXCEPT !.pc = "idle", !.ret = value, !.block = NoValue, !.tx = NoTx]
    ELSE [th EXCEPT !.pc = Head(th.stack), !.stack = Tail(th.stack), !.ret = value,
                    !.block = NoValue]

\* thread t calls seal_block
CallSeal(t) ==
    /\ At(t, "idle")
    /\ threads.th[t].calls < MaxCalls
    /\ Step(t, [threads.th[t] EXCEPT !.pc = "nb1", !.calls = @ + 1])
    /\ UNCHANGED <<chain, pending, store>>

\* thread t calls submit_transaction(tx)
CallSubmit(t) ==
    /\ At(t, "idle")
    /\ threads.th[t].calls < MaxCalls
    /\ Step(t, [threads.th[t] EXCEPT !.pc = "nt1", !.calls = @ + 1,
                                      !.tx = ThreadTx(t, threads.th[t].calls + 1)])
    /\ UNCHANGED <<chain, pending, store>>

\* thread t calls issue_credits: its first statement calls new_transaction
CallIssue(t) ==
    /\ At(t, "idle")
    /\ threads.th[t].calls < MaxCalls
    /\ Step(t, [threads.th[t] EXCEPT !.pc = "nt1", !.stack = <<"ic2">>, !.calls = @ + 1,
                                      !.tx = ThreadIssue(t, threads.th[t].calls + 1)])
    /\ UNCHANGED <<chain, pending, store>>

\* nb1: block = {"index": len(self.chain) + 1, "timestamp": time.time(), ...};
\* these calls of new_block pass nonce=0 and no previous_hash
NewBlockBuild(t) ==
    /\ At(t, "nb1")
    /\ threads' = [threads EXCEPT
                     !.th[t] = [@ EXCEPT !.pc = "nb2",
                                         !.block = [keys |-> BlockKeys,
                                                    index |-> NewIndex(chain),
                                                    timestamp |-> threads.now,
                                                    transactions |-> AsDicts(pending),
                                                    previous_hash |-> hash(Last(chain)),
                                                    nonce |-> 0]],
                     !.now = @ + 1]
    /\ UNCHANGED <<chain, pending, store, proc, boot, nOps, lastOp, streak, trace,
                   hashVars, appVars, ret, tamper, submitted, raised>>

\* the statement is left for later: the key holds a placeholder
HashLater(b) == SetHash(b, "")

\* block["hash"] = self.hash(block)
HashNow(b) == SetHash(b, hash(b))

\* nb2: block["hash"] = self.hash(block)
NewBlockHash(t) ==
    /\ At(t, "nb2")
    /\ Step(t, [threads.th[t] EXCEPT !.pc = "nb3", !.block = HashNow(@)])
    /\ UNCHANGED <<chain, pending, store>>

\* nb3: the try block, whose rows are committed or rolled back as a whole
NewBlockPersist(t) ==
    /\ At(t, "nb3")
    /\ \E fail \in Fails(Len(threads.th[t].block.transactions)) :
         store' = Persist(store, threads.th[t].block, fail)
    /\ Step(t, [threads.th[t] EXCEPT !.pc = "nb4"])
    /\ UNCHANGED <<chain, pending>>

\* nb4: self.pending = []
NewBlockClear(t) ==
    /\ At(t, "nb4")
    /\ pending' = <<>>
    /\ Step(t, [threads.th[t] EXCEPT !.pc = "nb5"])
    /\ UNCHANGED <<chain, store>>

\* nb5: self.chain.append(block)
NewBlockAppend(t) ==
    /\ At(t, "nb5")
    /\ chain' = Append(chain, threads.th[t].block)
    /\ Step(t, [threads.th[t] EXCEPT !.pc = "nb6"])
    /\ UNCHANGED <<pending, store>>

\* nb6: return block
NewBlockReturn(t) ==
    /\ At(t, "nb6")
    /\ Step(t, Return(threads.th[t], RetBlock(threads.th[t].block)))
    /\ UNCHANGED <<chain, pending, store>>

\* nt1: self.pending.append(tx)
NewTxAppend(t) ==
    /\ At(t, "nt1")
    /\ pending' = Append(pending, threads.th[t].tx)
    /\ threads' = [threads EXCEPT !.th[t] = [@ EXCEPT !.pc = "nt2"],
                                  !.submitted = @ \cup {threads.th[t].tx}]
    /\ UNCHANGED <<chain, store, proc, boot, nOps, lastOp, streak, trace,
                   hashVars, appVars, ret, tamper, submitted, raised>>

\* nt2: if len(self.pending) >= 5: self.new_block(nonce=0)
NewTxCheck(t) ==
    /\ At(t, "nt2")
    /\ Step(t, IF Reached(pending)
               THEN [threads.th[t] EXCEPT !.pc = "nb1", !.stack = <<"nt3">> \o @]
               ELSE [threads.th[t] EXCEPT !.pc = "nt3"])
    /\ UNCHANGED <<chain, pending, store>>

\* nt3: return self.last_block["index"] + 1
NewTxReturn(t) ==
    /\ At(t, "nt3")
    /\ Step(t, Return(threads.th[t], NextIndex(Mgr(chain, pending, store))))
    /\ UNCHANGED <<chain, pending, store>>

\* ic2: the second statement of issue_credits, self.new_block(nonce=0)
IssueSeal(t) ==
    /\ At(t, "ic2")
    /\ Step(t, [threads.th[t] EXCEPT !.pc = "nb1"])
    /\ UNCHANGED <<chain, pending, store>>

NextThreads ==
    \E t \in Threads :
      \/ CallSeal(t)
      \/ CallSubmit(t)
      \/ CallIssue(t)
      \/ NewBlockBuild(t)
      \/ NewBlockHash(t)
      \/ NewBlockPersist(t)
      \/ NewBlockClear(t)
      \/ NewBlockAppend(t)
      \/ NewBlockReturn(t)
      \/ NewTxAppend(t)
      \/ NewTxCheck(t)
      \/ NewTxReturn(t)
      \/ IssueSeal(t)

SpecThreads == InitThreads /\ [][NextThreads]_vars

(***************************************************************************)
(* The ledger with callers that submit any Tx and keep calling seal_block  *)
(***************************************************************************)
\* a transaction whose metadata json.dumps cannot serialize
TPoison == Tx("0xAAA", "0xBBB", PyFloat(5), PyNone, "TRANSFER", MetaObject)

AnyTxs == {TInt, TPoison}

\* submit_transaction: new_transaction(tx), for any Tx the caller built
SubmitAny ==
    /\ Running
    /\ \E tx \in AnyTxs :
         /\ Reached(Append(pending, tx)) => Len(chain) < MaxChain
         /\ \E m \in new_transaction(Mgr(chain, pending, store), tx, Clock) :
              Record(Op("submit", <<tx>>, Len(pending), m), m)
         /\ streak' = IF pending = <<>> THEN <<tx>> ELSE Append(streak, tx)
         /\ submitted' = Append(submitted, asdict(tx))

\* seal_block called while transactions are pending: new_block(nonce=0).
\* A call that raised has changed nothing but the number of calls made.
SealPending ==
    /\ Constructed
    /\ pending # <<>>
    /\ \E m \in new_block(Mgr(chain, pending, store), 0, "", Clock) :
         /\ chain' = m.chain
         /\ pending' = m.pending
         /\ store' = m.store
         /\ lastOp' = Op("seal", <<>>, Len(pending), m)
         /\ ret' = m.ret
         /\ nOps' = IF m.ret = RetRaise THEN nOps ELSE nOps + 1
         /\ raised' = IF m.ret = RetRaise THEN 1 - raised ELSE raised
    /\ streak' = <<>>
    /\ UNCHANGED <<proc, boot, trace, hashVars, appVars, tamper, threads, submitted>>

NextAny ==
    \/ SubmitAny
    \/ SealPending

\* seal_block keeps being called while transactions are pending
SpecAny == Init /\ [][NextAny]_vars /\ WF_vars(SealPending)

(***************************************************************************)
(* The Hasher alone: two blocks are drawn and hashed                       *)
(***************************************************************************)
InitHash ==
    /\ LedgerIdle
    /\ AppIdle
    /\ hb1 \in HashInputs1
    /\ hb2 \in HashInputs2
    /\ hd1 = ""
    /\ hd2 = ""

Hasher ==
    /\ hd1 = ""
    /\ hd1' = hash(hb1)
    /\ hd2' = hash(hb2)
    /\ UNCHANGED <<ledgerVars, appVars, hb1, hb2>>

NextHash == Hasher

SpecHash == InitHash /\ [][NextHash]_vars

\* no block is being hashed
HashIdle ==
    /\ hb1 = NoBlock
    /\ hb2 = NoBlock
    /\ hd1 = ""
    /\ hd2 = ""

(***************************************************************************)
(* Admin review: review_project and mint_credits_for_project               *)
(***************************************************************************)
\* the keyword arguments of ChainTransaction.objects.create(...) for a MINT
MintRowFields == {"sender", "recipient", "amount", "project_id", "kind",
                  "tx_hash", "meta"}

\* Model(**kwargs) raises TypeError on a keyword that is no field of the model
CreateRaises(fields) == ~(fields \subseteq TxColumns)

\* what a call of the service gave: the project object as it left it, the
\* number of on-chain mints that succeeded, and "hash", "none" or "raise"
Minted(p, k, r) == [project |-> p, minted |-> k, ret |-> r]

\* BlockchainService.mint_credits_for_project(project).  chainUp: the node
\* is connected and the contracts are loaded; mintOK: mint_credits_on_chain
\* returned a transaction hash.
mint_credits_for_project(p, chainUp, mintOK) ==
    IF p.chain_issued THEN Minted(p, 0, "none")
    ELSE IF p.status # "approved" THEN Minted(p, 0, "none")
    ELSE IF ~chainUp THEN Minted(p, 0, "raise")
    ELSE IF ~mintOK THEN Minted(p, 0, "raise")
    ELSE LET p1 == [p EXCEPT !.chain_issued = TRUE]
         IN IF CreateRaises(MintRowFields) THEN Minted(p1, 1, "raise")
            ELSE Minted(p1, 1, "hash")

ReviewActions == {"approve", "reject"}

\* predict_credits(...), or 0 for a project without a document
Predicted == {0, InitialCredits}

\* review_project on a POST.  complete: the field and the satellite data
\* are both present.
review_project(p, action, complete, predicted, chainUp, mintOK) ==
    IF ~complete THEN Minted(p, 0, "none")
    ELSE IF action = "approve" THEN
        LET p1 == [p EXCEPT !.status = "approved", !.credits = predicted]
        IN IF p1.chain_issued THEN Minted(p1, 0, "none")
           ELSE LET r == mint_credits_for_project(p1, chainUp, mintOK)
                IN IF r.ret = "raise"
                   THEN Minted([r.project EXCEPT !.chain_issued = FALSE], r.minted, "raise")
                   ELSE r
    ELSE Minted([p EXCEPT !.status = "rejected"], 0, "none")

\* an admin posts a review of a project
ReviewProject ==
    /\ reviews < MaxReviews
    /\ \E p \in Projects, action \in ReviewActions, complete \in BOOLEAN,
          predicted \in Predicted, chainUp \in BOOLEAN, mintOK \in BOOLEAN :
         LET r == review_project(project[p], action, complete, predicted, chainUp, mintOK)
         IN /\ project' = [project EXCEPT ![p] = r.project]
            /\ minted' = [minted EXCEPT ![p] = @ + r.minted]
    /\ reviews' = reviews + 1
    /\ UNCHANGED <<ledgerVars, hashVars, purchases, reqs, setup>>

InitReview ==
    /\ LedgerIdle
    /\ HashIdle
    /\ AppIdle

NextReview == ReviewProject

SpecReview == InitReview /\ [][NextReview]_vars

(***************************************************************************)
(* Purchases: purchase_credits, one request per buyer at a time            *)
(***************************************************************************)
\* int(request.POST.get("credits", 0))
Amounts == {0, 4, 8}

Req(b) == reqs[b]

\* the request of buyer b ends with result r
EndRequest(b, r) ==
    reqs' = [reqs EXCEPT ![b] = [NoRequest EXCEPT !.n = Req(b).n + 1, !.ret = r]]

\* get_object_or_404(Project, id=project_id) and the tests on the amount
PurchaseLoad(b) ==
    /\ Req(b).pc = "idle"
    /\ Req(b).n < MaxPurchases
    /\ \E pid \in Projects, credits \in Amounts :
         LET seen == project[pid].credits
         IN IF credits <= 0 \/ credits > seen
            THEN EndRequest(b, "error")
            ELSE reqs' = [reqs EXCEPT ![b] = [@ EXCEPT !.pc = "create", !.pid = pid,
                                                        !.credits = credits,
                                                        !.seen = seen]]
    /\ UNCHANGED <<ledgerVars, hashVars, project, purchases, minted, reviews, setup>>

\* Purchase.objects.create(corporate=request.user, project=project, credits=credits)
PurchaseCreate(b) ==
    /\ Req(b).pc = "create"
    /\ purchases' = Append(purchases, [corporate |-> b, project |-> Req(b).pid,
                                       credits |-> Req(b).credits])
    /\ reqs' = [reqs EXCEPT ![b].pc = "save"]
    /\ UNCHANGED <<ledgerVars, hashVars, project, minted, reviews, setup>>

\* project.credits -= credits; project.save(update_fields=["credits"]):
\* the value written is computed from the row as the request loaded it
PurchaseSave(b) ==
    /\ Req(b).pc = "save"
    /\ project' = [project EXCEPT ![Req(b).pid].credits = Req(b).seen - Req(b).credits]
    /\ reqs' = [reqs EXCEPT ![b].pc = "transfer"]
    /\ UNCHANGED <<ledgerVars, hashVars, purchases, minted, reviews, setup>>

\* the fields transfer_credits filters the MINT row on
TransferLookup == {"project_id", "kind", "tx_hash"}

\* BlockchainService.transfer_credits(...): the node is not connected, or
\* the lookup of the MINT row names a field the model does not have; the
\* exception ends the request, the rows written before it stay
PurchaseTransfer(b) ==
    /\ Req(b).pc = "transfer"
    /\ \E chainUp \in BOOLEAN :
         EndRequest(b, IF ~chainUp \/ CreateRaises(TransferLookup) THEN "raise" ELSE "done")
    /\ UNCHANGED <<ledgerVars, hashVars, project, purchases, minted, reviews, setup>>

\* the projects are approved and hold InitialCredits credits each
InitPurchase ==
    /\ LedgerIdle
    /\ HashIdle
    /\ project = [p \in Projects |-> [status |-> "approved", credits |-> InitialCredits,
                                      chain_issued |-> FALSE]]
    /\ purchases = <<>>
    /\ minted = [p \in Projects |-> 0]
    /\ reviews = 0
    /\ reqs = [b \in Buyers |-> NoRequest]
    /\ setup = SetupIdle

NextPurchase ==
    \E b \in Buyers :
      \/ PurchaseLoad(b)
      \/ PurchaseCreate(b)
      \/ PurchaseSave(b)
      \/ PurchaseTransfer(b)

SpecPurchase == InitPurchase /\ [][NextPurchase]_vars

(***************************************************************************)
(* BlockchainAutoSetup._setup_blockchain_async                             *)
(***************************************************************************)
\* self._deploy_contracts(): contracts_deployed is set when it succeeds
DeployContracts(s, ok) ==
    [s EXCEPT !.deploys = @ + 1, !.contracts_deployed = @ \/ ok]

\* the thread starts: the node answers already, or it is started, or
\* starting it fails
SetupStart ==
    /\ setup.pc = "idle"
    /\ \E running \in BOOLEAN, configured \in BOOLEAN, started \in BOOLEAN, ok \in BOOLEAN :
         setup' =
           IF running
           THEN IF configured
                THEN [setup EXCEPT !.pc = "done", !.path = "running",
                                   !.contracts_deployed = TRUE, !.setup_complete = TRUE]
                ELSE [DeployContracts(setup, ok) EXCEPT !.pc = "done", !.path = "running"]
           ELSE IF started
                THEN [setup EXCEPT !.pc = "checking", !.path = "started"]
                ELSE [setup EXCEPT !.pc = "done", !.path = "failed"]
    /\ UNCHANGED <<ledgerVars, hashVars, project, purchases, minted, reviews, reqs>>

\* one pass of the loop for i in range(10)
ReadinessCheck ==
    /\ setup.pc = "checking"
    /\ \E ok \in BOOLEAN :
         LET count == setup.ready_count + (IF ok THEN 1 ELSE 0)
             i == setup.i + 1
         IN setup' = [setup EXCEPT !.results = Append(@, ok),
                                   !.ready_count = count,
                                   !.i = i,
                                   !.pc = IF (ok /\ count >= ReadyNeeded) \/ i >= ReadinessChecks
                                          THEN "decide" ELSE "checking"]
    /\ UNCHANGED <<ledgerVars, hashVars, project, purchases, minted, reviews, reqs>>

\* after the loop: if ready_count >= 3, deploy the contracts
SetupDecide ==
    /\ setup.pc = "decide"
    /\ \E ok \in BOOLEAN :
         setup' =
           IF setup.ready_count >= ReadyNeeded
           THEN [DeployContracts(setup, ok) EXCEPT !.pc = "done", !.setup_complete = ok]
           ELSE [setup EXCEPT !.pc = "done"]
    /\ UNCHANGED <<ledgerVars, hashVars, project, purchases, minted, reviews, reqs>>

InitSetup ==
    /\ LedgerIdle
    /\ HashIdle
    /\ AppIdle

NextSetup ==
    \/ SetupStart
    \/ ReadinessCheck
    \/ SetupDecide

SpecSetup == InitSetup /\ [][NextSetup]_vars

(***************************************************************************)
(* Claims                                                                  *)
(***************************************************************************)
\* C1. Chain linkage: the first block of the chain has previous_hash
\* "GENESIS", and every later block has as previous_hash the value of the
\* hash field of the block before it.
C1_ChainLinkage ==
    Constructed =>
      /\ chain[1].previous_hash = GENESIS
      /\ \A i \in 2 .. Len(chain) : chain[i].previous_hash = chain[i - 1].hash

\* C2. Index contiguity: in a process constructed on an empty store, the
\* block at position i of the chain has index i, whatever the outcomes of
\* the persistence attempts.
C2_IndexContiguity ==
    boot = "empty" => \A i \in DOMAIN chain : chain[i].index = i

C2_Witness ==
    /\ boot = "empty"
    /\ Len(chain) >= 3
    /\ Len(store.blocks) < Len(chain)
    /\ Len(store.blocks) >= 1

\* C3. One block per issuance: every call of issue_credits or
\* transfer_credits makes the chain exactly one block longer, whatever the
\* length of the pending buffer at the call.
C3_OneBlockPerIssuance ==
    [][lastOp'.name \in {"issue", "transfer"} => Len(chain') = Len(chain) + 1]_vars

\* C4. Round-trip persistence: for every block of the chain, sealed by this
\* process or loaded from the store, the hash of the block's fields other
\* than hash is the block's hash field.
C4_RoundTrip ==
    \A i \in DOMAIN chain : hash(WithoutHash(chain[i])) = chain[i].hash

\* every block row has the transaction rows of its block, one per
\* transaction and in order, and every transaction row belongs to a block row
StoreWhole(st) ==
    /\ \A i \in DOMAIN st.blocks :
         TxsOf(st, st.blocks[i]) =
           [j \in DOMAIN st.blocks[i].raw.transactions |->
              TxRow(st.blocks[i].id, st.blocks[i].raw.transactions[j])]
    /\ \A j \in DOMAIN st.txs : \E i \in DOMAIN st.blocks : st.blocks[i].id = st.txs[j].block

\* C5. Atomic append: after every step a block row is in the store if and
\* only if all the transaction rows of its block are, and an operation none
\* of whose persistence attempts succeeded leaves the store as it was.
C5_AtomicAppend ==
    [][/\ StoreWhole(store')
       /\ lastOp'.persisted = 0 => store' = store
       /\ Len(store'.blocks) = Len(store.blocks) + lastOp'.persisted]_vars

C5_Witness ==
    /\ lastOp.seals > lastOp.persisted
    /\ Len(Last(chain).transactions) >= 2
    /\ Len(store.blocks) >= 1
    /\ Len(store.txs) >= 1

ValidKinds == {"ISSUE", "MINT", "TRANSFER"}

ValidTx(t) == t.amount.v >= 0 /\ t.kind \in ValidKinds

\* C6. Validation: no transaction with a negative amount or with a kind
\* outside ISSUE, MINT, TRANSFER is in the pending buffer, in a block of the
\* chain or in the store.
C6_Validation ==
    /\ \A i \in DOMAIN pending : ValidTx(pending[i])
    /\ \A i \in DOMAIN chain : \A j \in DOMAIN chain[i].transactions :
         ValidTx(chain[i].transactions[j])
    /\ \A j \in DOMAIN store.txs : ValidTx(store.txs[j])

C8_Genesis ==
    (lastOp.name = "construct" /\ boot = "empty") =>
      /\ Len(chain) = 1
      /\ chain[1].index = 1
      /\ chain[1].previous_hash = GENESIS
      /\ chain[1].nonce = 0
      /\ chain[1].transactions = <<>>
      /\ pending = <<>>
      /\ lastOp.persisted = 1 => (Len(store.blocks) = 1 /\ store.txs = <<>>)

C8_Witness ==
    /\ lastOp.name = "construct"
    /\ boot = "empty"
    /\ lastOp.persisted = 1
    /\ Len(store.blocks) = 1

IssueThenTransfer ==
    /\ boot = "empty"
    /\ Len(trace) = 3
    /\ trace[1].name = "construct"
    /\ trace[2].name = "issue"
    /\ trace[2].args = <<"0xAAA", PyInt(100), PyInt(7)>>
    /\ trace[3].name = "transfer"
    /\ trace[3].args = <<"0xAAA", "0xBBB", PyInt(40), PyInt(7)>>

IsTx(d, kind, sender, recipient, amount, project_id) ==
    /\ d.kind = kind
    /\ d.sender = sender
    /\ d.recipient = recipient
    /\ d.amount.v = amount
    /\ d.project_id = PyInt(project_id)

\* C9. Issue then transfer: on a ledger constructed on an empty store,
\* issue_credits("0xAAA", 100, 7) then transfer_credits("0xAAA", "0xBBB",
\* 40, 7) give a chain of 3 blocks; block 2 holds the one ISSUE transaction
\* from SYSTEM to 0xAAA of 100 for project 7, block 3 the one TRANSFER
\* transaction from 0xAAA to 0xBBB of 40 for project 7.
C9_IssueThenTransfer ==
    IssueThenTransfer =>
      /\ Len(chain) = 3
      /\ Len(chain[2].transactions) = 1
      /\ IsTx(chain[2].transactions[1], "ISSUE", "SYSTEM", "0xAAA", 100, 7)
      /\ Len(chain[3].transactions) = 1
      /\ IsTx(chain[3].transactions[1], "TRANSFER", "0xAAA", "0xBBB", 40, 7)

C9_Witness == IssueThenTransfer /\ Len(chain) = 3

SameMeta(m1, m2) ==
    /\ m1.t = m2.t
    /\ Range(m1.keys) = Range(m2.keys)
    /\ \A k \in Range(m1.keys) : m1[k] = m2[k]

SameTx(d1, d2) ==
    /\ Range(d1.keys) = Range(d2.keys)
    /\ d1.sender = d2.sender
    /\ d1.recipient = d2.recipient
    /\ d1.amount = d2.amount
    /\ d1.project_id = d2.project_id
    /\ d1.kind = d2.kind
    /\ SameMeta(d1.meta, d2.meta)

\* the two blocks have the same keys with the same values
SameValues(b1, b2) ==
    /\ Range(b1.keys) = Range(b2.keys)
    /\ b1.index = b2.index
    /\ b1.timestamp = b2.timestamp
    /\ b1.previous_hash = b2.previous_hash
    /\ b1.nonce = b2.nonce
    /\ Len(b1.transactions) = Len(b2.transactions)
    /\ \A i \in DOMAIN b1.transactions : SameTx(b1.transactions[i], b2.transactions[i])

Hashed == hd1 # ""

\* C10. Hash determinism: two blocks with the same field values have the
\* same digest whatever the insertion order of the keys of the block, of a
\* transaction or of its metadata, and two blocks that differ in a field
\* have different digests.
C10_HashDeterminism ==
    Hashed => (SameValues(hb1, hb2) <=> hd1 = hd2)

C10_Witness ==
    /\ Hashed
    /\ SameValues(hb1, hb2)
    /\ hb1.keys # hb2.keys
    /\ hb1.transactions[1].keys # hb2.transactions[1].keys
    /\ hb1.transactions[1].meta.keys # hb2.transactions[1].meta.keys
    /\ hd1 = hd2

\* C12. submit_transaction return value: after every call of
\* submit_transaction, in a process constructed on any store, the value
\* returned is the length of the chain after the call plus 1.
C12_SubmitReturn ==
    lastOp.name = "submit" => (ret.t = "int" /\ ret.n = Len(chain) + 1)

\* C13. issue_credits and transfer_credits results: after every call of
\* issue_credits or transfer_credits the value returned is the block the
\* call sealed, the last block of the chain.
C13_IssueTransferResult ==
    lastOp.name \in {"issue", "transfer"} =>
      (ret.t = "block" /\ ret.block = Last(chain))

\* C20. Persistence failure is non-fatal: a call of seal_block whose store
\* write fails raises nothing and returns a block, the chain after the call
\* is the chain before it with that block appended, the pending buffer is
\* empty and the store is as it was.
C20_PersistenceFailureNonFatal ==
    [][(lastOp'.name = "seal" /\ lastOp'.persisted = 0) =>
         /\ ret'.t = "block"
         /\ chain' = Append(chain, ret'.block)
         /\ pending' = <<>>
         /\ store' = store]_vars

C20_Witness ==
    /\ lastOp.name = "seal"
    /\ lastOp.persisted = 0
    /\ lastOp.before >= 2
    /\ ret.t = "block"
    /\ Len(ret.block.transactions) = lastOp.before
    /\ Len(store.blocks) >= 1
    /\ Len(store.blocks) < Len(chain)

\* C14. get_chain: whenever get_chain() is called on a constructed ledger,
\* the value returned is the list of the blocks of the in-memory chain, in
\* chain order.
C14_GetChain ==
    lastOp.name = "get_chain" => (ret.t = "list" /\ ret.items = chain)

\* C15. last_block: in every state of a constructed ledger, whatever the
\* store held and whether or not the load raised, the chain is not empty;
\* a read of last_block does not fail and gives the last block appended.
C15_LastBlock ==
    Constructed =>
      /\ Len(chain) >= 1
      /\ lastOp.name = "last_block" => (ret.t = "block" /\ ret.block = chain[Len(chain)])

C15_Witness ==
    /\ lastOp.name = "last_block"
    /\ proc = 2
    /\ boot = "failed"
    /\ Len(chain) >= 2
    /\ ret.t = "block"
    /\ ret.block.index = Len(chain)

\* C16. Startup with an unreachable store: right after a construction whose
\* load raised, before any block was read or after some were, the chain is
\* exactly one genesis block: index 1, previous_hash "GENESIS", nonce 0 and
\* no transactions.
C16_StartupUnreachableStore ==
    (lastOp.name = "construct" /\ boot = "failed") =>
      /\ Len(chain) = 1
      /\ chain[1].index = 1
      /\ chain[1].previous_hash = GENESIS
      /\ chain[1].nonce = 0
      /\ chain[1].transactions = <<>>

\* C19. Ledger contiguity across restarts: in a process constructed on a
\* store written by earlier seals, some of whose persistence attempts
\* failed, the chain right after the load has the indices 1..N in order,
\* and at every later moment no two blocks of the chain have the same index.
C19_ContiguityAcrossRestarts ==
    boot = "loaded" =>
      /\ lastOp.name = "construct" => \A i \in DOMAIN chain : chain[i].index = i
      /\ \A i, j \in DOMAIN chain : i # j => chain[i].index # chain[j].index

\* the block loaded from the altered row: block rows are loaded in the
\* order of their index column
TamperedBlock == chain[RowRank(store.blocks, store.blocks[tamper.row])]

\* C11. Corrupted block detection: when one column of a block row (index,
\* timestamp, previous_hash, nonce) or of one of its transaction rows has
\* been altered and the chain is then loaded by a construction, the hash
\* computed over the fields of the block loaded from that row, other than
\* hash, is not the hash field of the loaded block.
C11_CorruptedBlockDetection ==
    (tamper # NoTamper /\ lastOp.name = "construct" /\ boot = "loaded") =>
      hash(WithoutHash(TamperedBlock)) # TamperedBlock.hash

\* C17. Concurrent sealing: at every moment of two threads sealing on one
\* manager, no two blocks of the chain have the same index, and the
\* previous_hash of every block after the first is the hash of the block
\* right before it in the chain.
C17_ConcurrentSealing ==
    /\ \A i, j \in DOMAIN chain : i # j => chain[i].index # chain[j].index
    /\ \A i \in 2 .. Len(chain) : chain[i].previous_hash = hash(chain[i - 1])

AllReturned == \A t \in Threads : At(t, "idle")

\* the number of places that hold transaction tx
Occurrences(tx) ==
    Cardinality({i \in DOMAIN pending : pending[i] = tx})
    + Cardinality({<<i, j>> \in (DOMAIN chain) \X (1 .. Threshold) :
                     /\ j \in DOMAIN chain[i].transactions
                     /\ chain[i].transactions[j] = asdict(tx)})

\* C18. No lost or duplicated transaction under concurrency: once every
\* call of the two threads has returned, each transaction that was appended
\* to the pending buffer is in exactly one place, the pending buffer or a
\* block of the chain.
C18_NoLostOrDuplicatedTx ==
    AllReturned => \A tx \in threads.submitted : Occurrences(tx) = 1

\* C21. Transaction ownership: in every state of a single-threaded process,
\* the transactions of the blocks of the chain, block after block, followed
\* by the pending buffer, are the transactions submitted so far (after
\* those loaded at construction), each once and in submission order.
C21_TransactionOwnership ==
    Flatten(chain) \o AsDicts(pending) = submitted

C21_Witness ==
    /\ Len(chain) >= 3
    /\ Len(pending) >= 1
    /\ Len(chain[2].transactions) >= 2
    /\ chain[2].transactions[1] # chain[2].transactions[2]
    /\ Len(chain[3].transactions) >= 1
    /\ Len(submitted) >= 4

IsPrefix(s, t) == Len(s) <= Len(t) /\ SubSeq(t, 1, Len(s)) = s

\* C22. Append-only chain: every step of one process leaves the chain it
\* found as a prefix of the chain it leaves; the chain changes only in a
\* call that ran new_block; and a submit_transaction that does not reach
\* the threshold leaves the chain and the store unchanged.
C22_AppendOnly ==
    [][proc' = proc =>
         /\ IsPrefix(chain, chain')
         /\ chain' # chain => lastOp'.seals >= 1
         /\ (lastOp'.name = "submit" /\ lastOp'.before + 1 < Threshold) =>
              (chain' = chain /\ store' = store)]_vars

C22_Witness ==
    /\ lastOp.name = "submit"
    /\ lastOp.before = Threshold - 2
    /\ lastOp.seals = 0
    /\ Len(pending) = Threshold - 1
    /\ Len(chain) >= 2

\* C23. Startup on a non-empty store: a construction on a store of N >= 1
\* block rows whose load does not raise writes nothing to the store, seals
\* no block, leaves the pending buffer empty, and gives a chain of N
\* blocks, one per block row (same hash and index, as many transactions
\* as the row has transaction rows), in ascending order of index.
C23_StartupNonEmptyStore ==
    [][(lastOp'.name = "construct" /\ proc' = proc + 1 /\ boot' = "loaded") =>
         /\ store' = store
         /\ pending' = <<>>
         /\ lastOp'.seals = 0
         /\ Len(chain') = Len(store.blocks)
         /\ \A r \in Range(store.blocks) :
              Cardinality({i \in DOMAIN chain' :
                             /\ chain'[i].hash = r.hash
                             /\ chain'[i].index = r.index
                             /\ Len(chain'[i].transactions) = Len(TxsOf(store, r))}) = 1
         /\ \A i, j \in DOMAIN chain' : i < j => chain'[i].index <= chain'[j].index]_vars

C23_Witness ==
    /\ lastOp.name = "construct"
    /\ proc = 2
    /\ boot = "loaded"
    /\ Len(chain) >= 2
    /\ Len(chain) = Len(store.blocks)
    /\ Len(chain[2].transactions) >= 1

\* C25. Unique index in the store: whatever the constructions (with the
\* store reachable or not, the load raising or not) and the seals, no two
\* block rows of the store have the same index.
C25_UniqueIndexInStore ==
    \A i, j \in DOMAIN store.blocks :
      i # j => store.blocks[i].index # store.blocks[j].index

\* the block has a hash key, and its value is the hash of its other fields
HasHash(b) ==
    /\ "hash" \in Range(b.keys)
    /\ b.hash = hash(WithoutHash(b))

\* the block row holds a hashed block, and its hash in the hash column
RowHashed(r) == HasHash(r.raw) /\ r.hash = r.raw.hash

\* every block the step put into the chain or changed there, and every
\* block row it wrote or changed, carries its hash
EnteredHashed ==
    /\ \A i \in DOMAIN chain' :
         (i > Len(chain) \/ chain'[i] # chain[i]) => HasHash(chain'[i])
    /\ \A i \in DOMAIN store'.blocks :
         (i > Len(store.blocks) \/ store'.blocks[i] # store.blocks[i]) =>
           RowHashed(store'.blocks[i])

\* C24. No unhashed block is observable: the blocks of the chain and the
\* block rows of the store carry the hash computed over their fields when
\* the threads start, and every step of a thread inside new_block leaves
\* every block it put into the chain or changed there, and every block
\* row it wrote or changed, with that hash; so at no step does the chain
\* or the store hold a block without its hash.
C24_NoUnhashedBlock ==
    /\ \A i \in DOMAIN chain : HasHash(chain[i])
    /\ \A i \in DOMAIN store.blocks : RowHashed(store.blocks[i])
    /\ [][EnteredHashed]_vars

C24_Witness ==
    /\ \E t \in Threads : At(t, "nb2")
    /\ \E t \in Threads : At(t, "nb5") /\ Len(threads.th[t].block.transactions) >= 1
    /\ Len(chain) >= 2
    /\ Len(store.blocks) >= 2

\* the pending buffer holds a transaction that cannot be hashed
Unhashable(p) == ~Dumpable([transactions |-> AsDicts(p)])

\* C26. Hash failure leaves state unchanged: a call of seal_block made
\* while a pending transaction cannot be serialized ends with an exception
\* at the caller, and the chain, the pending buffer and the store are as
\* they were before the call.
C26_HashFailureNoChange ==
    [][(lastOp'.name = "seal" /\ Unhashable(pending)) =>
         /\ ret'.t = "raise"
         /\ chain' = chain
         /\ pending' = pending
         /\ store' = store]_vars

C26_Witness ==
    /\ lastOp.name = "seal"
    /\ ret.t = "raise"
    /\ raised = 1
    /\ Len(pending) >= 2
    /\ Len(chain) >= 2

\* C27. Pending transactions are eventually sealed: while seal_block keeps
\* being called, whenever the pending buffer is not empty there is a later
\* moment at which it is empty and every submitted transaction is in a
\* block of the chain.
C27_EventuallySealed ==
    (pending # <<>>) ~> (pending = <<>> /\ Flatten(chain) = submitted)

RECURSIVE SumCredits(_, _)
\* the credits of the Purchase rows of a project
SumCredits(rows, p) ==
    IF rows = <<>> THEN 0
    ELSE (IF rows[1].project = p THEN rows[1].credits ELSE 0) + SumCredits(Tail(rows), p)

\* no purchase_credits request is in progress
Quiet == \A b \in Buyers : Req(b).pc = "idle"

\* C28. Credits are minted exactly once per project: the on-chain mint of a
\* project has succeeded at most once, and chain_issued is true for every
\* project whose on-chain mint has succeeded.
C28_MintedOnce ==
    \A p \in Projects :
      /\ minted[p] <= 1
      /\ minted[p] >= 1 => project[p].chain_issued

\* C29. Credits are conserved by purchases: project.credits is never
\* negative, and when no purchase request is in progress project.credits
\* plus the credits of the project's Purchase rows equal the credits the
\* project had before the purchases.
C29_CreditsConserved ==
    \A p \in Projects :
      /\ project[p].credits >= 0
      /\ Quiet => project[p].credits + SumCredits(purchases, p) = InitialCredits

\* the results hold n successes in a row
HasRun(results, n) ==
    \E k \in 1 .. Len(results) :
      /\ k + n - 1 <= Len(results)
      /\ \A j \in k .. (k + n - 1) : results[j]

\* C30. Auto-setup readiness: after starting the local node the contracts
\* are deployed only if 3 consecutive readiness checks succeeded.
C30_ConsecutiveReadiness ==
    (setup.path = "started" /\ setup.deploys >= 1) => HasRun(setup.results, ReadyNeeded)

====
